---- MODULE Spec2Model ----
(***************************************************************************)
(* Model of text_generation_service/main.py: the module-level load of the  *)
(* text-generation pipeline, the GET / handler and the POST /generate      *)
(* handler with its post-processing (line dedup, prompt stripping, word    *)
(* clamp).                                                                 *)
(*                                                                         *)
(* A Python str is a sequence of one-character strings.  The float         *)
(* parameters of a request are kept in tenths (0.7 is 7).                  *)
(***************************************************************************)
EXTENDS Integers, Sequences, FiniteSets, TLC

VARIABLES
    process,         \* "importing" | "serving" | "terminated"
    generator,       \* module global: "unset" | "pipeline"
    pc,              \* "idle" | "responded": a response is waiting to be sent
    route,           \* "none" | "GET /" | "POST /generate": the handler that ran
    body,            \* JSON body of the POST /generate being answered
    calls,           \* keyword arguments of each generator(...) call of this request
    outputs,         \* what generator(...) returned (a list of candidates)
    generated_text,  \* main.py:121
    unique_lines,    \* main.py:129-135
    joined_text,     \* final_text at main.py:138
    stripped_text,   \* final_text after main.py:141-142
    final_text,      \* final_text after main.py:145-147
    response         \* [status, body] of the HTTP response

vars == <<process, generator, pc, route, body, calls, outputs, generated_text,
          unique_lines, joined_text, stripped_text, final_text, response>>

-----------------------------------------------------------------------------
(* Bounds of the model *)

MaxTextLen == 4      \* longest enumerated raw generated text
MaxPromptLen == 2    \* longest enumerated request prompt
MaxCandidates == 2   \* most candidates the generator returns

(* Program constants *)

MaxWords == 200                    \* main.py:146-147
DefaultMaxNewTokens == 200         \* main.py:25
DefaultTemperature == 7            \* main.py:27, 0.7 in tenths
DefaultTopP == 9                   \* main.py:30, 0.9 in tenths
DefaultRepetitionPenalty == 12     \* main.py:32, 1.2 in tenths
DefaultNoRepeatNgramSize == 2      \* main.py:34

Alphabet == {"a", "b", " ", "\n"}

\* Characters str.strip() and str.split() treat as whitespace.
Whitespace == {" ", "\n", "\t", "\r"}

Str(n) == UNION {[1..k -> Alphabet] : k \in 0..n}

-----------------------------------------------------------------------------
(* Python built-ins used by generate_text *)

\* str.strip()
strip(s) ==
    LET keep == {i \in 1..Len(s) : s[i] \notin Whitespace}
    IN  IF keep = {} THEN <<>>
        ELSE LET first == CHOOSE i \in keep : \A j \in keep : i <= j
                 last  == CHOOSE i \in keep : \A j \in keep : j <= i
             IN  SubSeq(s, first, last)

\* One left-to-right pass over s[lo..hi], the left half before the right.
\* st.parts: the pieces closed so far; st.cur: the piece being read.
RECURSIVE split_scan(_, _, _, _, _)
split_scan(s, seps, lo, hi, st) ==
    IF lo > hi THEN st
    ELSE IF lo = hi THEN
        IF s[lo] \in seps
        THEN [parts |-> Append(st.parts, st.cur), cur |-> <<>>]
        ELSE [parts |-> st.parts, cur |-> Append(st.cur, s[lo])]
    ELSE LET mid  == (lo + hi) \div 2
             left == split_scan(s, seps, lo, mid, st)
         IN  IF Len(left.parts) >= 0
             THEN split_scan(s, seps, mid + 1, hi, left)
             ELSE left

\* str.split("\n"): every newline separates, empty pieces are kept.
split_nl(s) ==
    LET st == split_scan(s, {"\n"}, 1, Len(s), [parts |-> <<>>, cur |-> <<>>])
    IN  Append(st.parts, st.cur)

\* str.split(): runs of whitespace separate, empty pieces are dropped.
split_ws(s) ==
    LET st == split_scan(s, Whitespace, 1, Len(s), [parts |-> <<>>, cur |-> <<>>])
        all == Append(st.parts, st.cur)
    IN  SelectSeq(all, LAMBDA w : w # <<>>)

\* sep.join(parts[lo..hi])
RECURSIVE join_range(_, _, _, _)
join_range(sep, parts, lo, hi) ==
    IF lo > hi THEN <<>>
    ELSE IF lo = hi THEN parts[lo]
    ELSE LET mid == (lo + hi) \div 2
         IN  join_range(sep, parts, lo, mid) \o sep \o join_range(sep, parts, mid + 1, hi)

\* sep.join(parts)
join(sep, parts) == join_range(sep, parts, 1, Len(parts))

match_at(s, p, i) ==
    /\ i + Len(p) - 1 <= Len(s)
    /\ \A k \in 1..Len(p) : s[i + k - 1] = p[k]

\* p in s
contains(s, p) == \E i \in 1..(Len(s) + 1) : match_at(s, p, i)

\* One left-to-right pass of str.replace over s[lo..hi], the left half before
\* the right.  st.next: first index not yet consumed; st.out: text copied so far.
RECURSIVE replace_scan(_, _, _, _, _)
replace_scan(s, p, lo, hi, st) ==
    IF lo > hi THEN st
    ELSE IF lo = hi THEN
        IF lo < st.next THEN st
        ELSE IF match_at(s, p, lo)
        THEN [next |-> lo + Len(p), out |-> st.out]
        ELSE [next |-> lo + 1, out |-> Append(st.out, s[lo])]
    ELSE LET mid  == (lo + hi) \div 2
             left == replace_scan(s, p, lo, mid, st)
         IN  IF left.next > 0
             THEN replace_scan(s, p, mid + 1, hi, left)
             ELSE left

\* s.replace(p, "") for a non-empty p: the non-overlapping occurrences of p,
\* found from the left, are removed.
replace(s, p) == replace_scan(s, p, 1, Len(s), [next |-> 1, out |-> <<>>]).out

-----------------------------------------------------------------------------
(* generate_text, step by step *)

\* pydantic: the fields of GenerateRequest, with the default where the JSON
\* body has no such key.
GenerateRequest(b) ==
    LET field(name, default) == IF name \in DOMAIN b THEN b[name] ELSE default
    IN  [prompt               |-> b["prompt"],
         max_new_tokens       |-> field("max_new_tokens", DefaultMaxNewTokens),
         temperature          |-> field("temperature", DefaultTemperature),
         top_p                |-> field("top_p", DefaultTopP),
         repetition_penalty   |-> field("repetition_penalty", DefaultRepetitionPenalty),
         no_repeat_ngram_size |-> field("no_repeat_ngram_size", DefaultNoRepeatNgramSize)]

\* A slip: the prompt is tested without being trimmed.
trimmed_prompt_untrimmed(req) == req.prompt

\* main.py:94
trimmed_prompt(req) == strip(req.prompt)

\* The arguments of generator(...), main.py:110-118.
generator_args(req, prompt) ==
    [final_prompt         |-> prompt,
     max_new_tokens       |-> req.max_new_tokens,
     do_sample            |-> TRUE,
     temperature          |-> req.temperature,
     top_p                |-> req.top_p,
     repetition_penalty   |-> req.repetition_penalty,
     no_repeat_ngram_size |-> req.no_repeat_ngram_size]

\* A slip: a failed call is made a second time.
generator_calls_retry(req, prompt, raises) ==
    IF prompt = <<>> THEN <<>>
    ELSE IF raises THEN <<generator_args(req, prompt), generator_args(req, prompt)>>
    ELSE <<generator_args(req, prompt)>>

\* The generator(...) calls one request makes: none when the prompt is
\* rejected, else one, whether it returns or raises.
generator_calls(req, prompt, raises) ==
    IF prompt = <<>> THEN <<>> ELSE <<generator_args(req, prompt)>>

\* outputs[0]["generated_text"]
first_candidate(outs) == outs[1].generated_text

\* The loop of main.py:131-135 over lines[lo..hi], the left half before the
\* right.  st.unique_lines and st.seen are the loop's two locals.
RECURSIVE dedup_scan(_, _, _, _)
dedup_scan(lines, lo, hi, st) ==
    IF lo > hi THEN st
    ELSE IF lo = hi THEN
        LET line_stripped == strip(lines[lo])
        IN  IF line_stripped \notin st.seen
            THEN [unique_lines |-> Append(st.unique_lines, lines[lo]),
                  seen         |-> st.seen \cup {line_stripped}]
            ELSE st
    ELSE LET mid  == (lo + hi) \div 2
             left == dedup_scan(lines, lo, mid, st)
         IN  IF Len(left.unique_lines) >= 0
             THEN dedup_scan(lines, mid + 1, hi, left)
             ELSE left

\* A slip: the untrimmed line is the key of seen.
dedup_lines_untrimmed(text) ==
    LET lines == split_nl(text)
        kept  == SelectSeq([i \in 1..Len(lines) |-> <<i, lines[i]>>],
                           LAMBDA e : \A j \in 1..(e[1] - 1) : lines[j] # e[2])
    IN  [k \in 1..Len(kept) |-> kept[k][2]]

\* A slip: a line is dropped only when it repeats the line just before it.
dedup_lines_adjacent(text) ==
    LET lines == split_nl(text)
        kept  == SelectSeq([i \in 1..Len(lines) |-> <<i, lines[i]>>],
                           LAMBDA e : e[1] = 1 \/ strip(lines[e[1] - 1]) # strip(e[2]))
    IN  [k \in 1..Len(kept) |-> kept[k][2]]

\* main.py:128-135: the unique lines of the raw text.
dedup_lines(text) ==
    LET lines == split_nl(text)
    IN  dedup_scan(lines, 1, Len(lines), [unique_lines |-> <<>>, seen |-> {}]).unique_lines

\* A slip: every line is ended by a newline.
join_lines_terminated(ls) == join(<<>>, [k \in 1..Len(ls) |-> Append(ls[k], "\n")])

\* main.py:138
join_lines(ls) == join(<<"\n">>, ls)

\* A slip: only an echo at the start of the text is removed.
strip_prompt_leading(text, prompt) ==
    IF match_at(text, prompt, 1)
    THEN strip(SubSeq(text, Len(prompt) + 1, Len(text)))
    ELSE text

\* A slip: replace(prompt, "", 1), only the first occurrence is removed.
strip_prompt_first(text, prompt) ==
    IF contains(text, prompt)
    THEN LET at == CHOOSE i \in 1..Len(text) :
                       /\ match_at(text, prompt, i)
                       /\ \A j \in 1..(i - 1) : ~match_at(text, prompt, j)
         IN  strip(SubSeq(text, 1, at - 1) \o SubSeq(text, at + Len(prompt), Len(text)))
    ELSE text

\* main.py:141-142
strip_prompt(text, prompt) ==
    IF contains(text, prompt) THEN strip(replace(text, prompt)) ELSE text

\* A slip: words[:201], one word too many is kept.
clamp_one_more(text) ==
    LET words == split_ws(text)
    IN  IF Len(words) > MaxWords
        THEN join(<<" ">>, SubSeq(words, 1, MaxWords + 1))
        ELSE text

\* main.py:145-147
clamp(text) ==
    LET words == split_ws(text)
    IN  IF Len(words) > MaxWords
        THEN join(<<" ">>, SubSeq(words, 1, MaxWords))
        ELSE text

\* main.py:96, the HTTPException as FastAPI renders it
bad_request == [status |-> 400, body |-> [detail |-> "Prompt cannot be empty."]]

\* A slip: the text is returned under another key.
ok_response_text_key(text) == [status |-> 200, body |-> [text |-> text]]

\* main.py:153
ok_response(text) == [status |-> 200, body |-> [generated_text |-> text]]

\* An exception of generator(...) is not caught: the framework answers 500.
server_error == [status |-> 500, body |-> [error |-> "Internal Server Error"]]

\* main.py:78
welcome == [status |-> 200, body |-> [message |-> "Welcome to the Text Generation Service!"]]

NoResponse == [status |-> 0, body |-> [none |-> TRUE]]
NoBody == [prompt |-> <<>>]

-----------------------------------------------------------------------------
(* The environment: what a client may send and what the pipeline may return *)

\* u repeated n times
Rep(u, n) == [i \in 1..(n * Len(u)) |-> u[((i - 1) % Len(u)) + 1]]

\* Raw texts around the word limit: one word short of it, at it, one over.
LongTexts ==
    {head \o Rep(unit, n) :
        head \in {<<>>, <<"a", "\n">>},
        unit \in {<<" ", "b">>, <<"a", "b", " ">>},
        n \in {MaxWords - 1, MaxWords, MaxWords + 1}}

RawTexts == Str(MaxTextLen) \cup LongTexts

\* A prompt is typed on one line.
PromptAlphabet == {"a", "b", " "}

PromptInputs == UNION {[1..k -> PromptAlphabet] : k \in 0..MaxPromptLen}

ParamFields ==
    {"max_new_tokens", "temperature", "top_p", "repetition_penalty", "no_repeat_ngram_size"}

\* A value for each decoding parameter that is not its default.
GivenParams ==
    [max_new_tokens |-> 20, temperature |-> 10, top_p |-> 5,
     repetition_penalty |-> 10, no_repeat_ngram_size |-> 0]

\* The JSON bodies: prompt is required, every other key may be absent.
Body(prompt_in, given) ==
    [k \in {"prompt"} \cup given |-> IF k = "prompt" THEN prompt_in ELSE GivenParams[k]]

Candidate(text) == [generated_text |-> text]

Raises == [raises |-> TRUE, outputs |-> <<>>]
Returns(outs) == [raises |-> FALSE, outputs |-> outs]

\* One candidate (the pipeline's default), any raw text, no optional key.
TextScenarios ==
    {<<Body(p, {}), o>> :
        p \in PromptInputs,
        o \in {Raises} \cup {Returns(<<Candidate(t)>>) : t \in RawTexts}}

\* Any choice of optional keys, up to MaxCandidates candidates.
ParamScenarios ==
    {<<Body(p, given), Returns(outs)>> :
        p \in {<<>>, <<" ">>, <<"a">>, <<" ", "b">>},
        given \in SUBSET ParamFields,
        outs \in UNION {[1..k -> {Candidate(<<"a">>), Candidate(<<"b">>)}] : k \in 1..MaxCandidates}}

Scenarios == TextScenarios \cup ParamScenarios

-----------------------------------------------------------------------------
(* State machine *)

Init ==
    /\ process = "importing"
    /\ generator = "unset"
    /\ pc = "idle"
    /\ route = "none"
    /\ body = NoBody
    /\ calls = <<>>
    /\ outputs = <<>>
    /\ generated_text = <<>>
    /\ unique_lines = <<>>
    /\ joined_text = <<>>
    /\ stripped_text = <<>>
    /\ final_text = <<>>
    /\ response = NoResponse

NoLocals ==
    /\ calls' = <<>>
    /\ outputs' = <<>>
    /\ generated_text' = <<>>
    /\ unique_lines' = <<>>
    /\ joined_text' = <<>>
    /\ stripped_text' = <<>>
    /\ final_text' = <<>>

\* A slip: the exception of pipeline(...) is printed and not raised again.
LoadModelSwallowed ==
    /\ process = "importing"
    /\ \E loads \in BOOLEAN :
          generator' = IF loads THEN "pipeline" ELSE "unset"
    /\ process' = "serving"
    /\ UNCHANGED <<pc, route, body, calls, outputs, generated_text, unique_lines,
                   joined_text, stripped_text, final_text, response>>

\* main.py:56-66, the import of the module: pipeline(...) returns the
\* generator for the model MODEL_NAME names, or raises and the exception is
\* raised again, which ends the import and with it the process, before any
\* route is registered.
LoadModel ==
    /\ process = "importing"
    /\ \E loads \in BOOLEAN :
          IF loads
          THEN /\ generator' = "pipeline"
               /\ process' = "serving"
          ELSE /\ generator' = "unset"
               /\ process' = "terminated"
    /\ UNCHANGED <<pc, route, body, calls, outputs, generated_text, unique_lines,
                   joined_text, stripped_text, final_text, response>>

\* main.py:72-78
root ==
    /\ process = "serving"
    /\ pc = "idle"
    /\ pc' = "responded"
    /\ route' = "GET /"
    /\ response' = welcome
    /\ body' = NoBody
    /\ NoLocals
    /\ UNCHANGED <<process, generator>>

\* main.py:84-153, one whole request
generate_text ==
    /\ process = "serving"
    /\ pc = "idle"
    /\ \E sc \in Scenarios :
          LET req     == GenerateRequest(sc[1])
              outcome == sc[2]
              prompt  == trimmed_prompt(req)
          IN  /\ body' = sc[1]
              /\ calls' = generator_calls(req, prompt, outcome.raises)
              /\ IF prompt = <<>> THEN
                      /\ response' = bad_request
                      /\ outputs' = <<>>
                      /\ generated_text' = <<>>
                      /\ unique_lines' = <<>>
                      /\ joined_text' = <<>>
                      /\ stripped_text' = <<>>
                      /\ final_text' = <<>>
                 ELSE IF outcome.raises THEN
                      /\ response' = server_error
                      /\ outputs' = <<>>
                      /\ generated_text' = <<>>
                      /\ unique_lines' = <<>>
                      /\ joined_text' = <<>>
                      /\ stripped_text' = <<>>
                      /\ final_text' = <<>>
                 ELSE
                      /\ outputs' = outcome.outputs
                      /\ generated_text' = first_candidate(outcome.outputs)
                      /\ unique_lines' = dedup_lines(generated_text')
                      /\ joined_text' = join_lines(unique_lines')
                      /\ stripped_text' = strip_prompt(joined_text', prompt)
                      /\ final_text' = clamp(stripped_text')
                      /\ response' = ok_response(final_text')
    /\ pc' = "responded"
    /\ route' = "POST /generate"
    /\ UNCHANGED <<process, generator>>

\* The framework sends the response; the handler's locals are gone.
send_response ==
    /\ pc = "responded"
    /\ pc' = "idle"
    /\ route' = "none"
    /\ body' = NoBody
    /\ response' = NoResponse
    /\ NoLocals
    /\ UNCHANGED <<process, generator>>

Next == LoadModel \/ root \/ generate_text \/ send_response

Spec == Init /\ [][Next]_vars

-----------------------------------------------------------------------------
(* Vocabulary of the properties *)

\* POST /generate has been answered and the response is not yet sent.
Answered == pc = "responded" /\ route = "POST /generate"

Answered200 == Answered /\ response.status = 200

\* The trimmed prompt of the request being answered.
Prompt == strip(body["prompt"])

\* Number of whitespace-delimited words: the places where a word starts.
WordCount(s) ==
    Cardinality({i \in 1..Len(s) :
                    s[i] \notin Whitespace /\ (i = 1 \/ s[i - 1] \in Whitespace)})

\* No whitespace but single spaces between words.
SingleSpaced(s) ==
    \A i \in 1..Len(s) :
        s[i] \in Whitespace =>
            /\ s[i] = " "
            /\ 1 < i /\ i < Len(s)
            /\ s[i + 1] \notin Whitespace

\* The places where p occurs in s.
Occurrences(s, p) == {i \in 1..Len(s) : match_at(s, p, i)}

\* s without the characters at the places in gone.
Without(s, gone) ==
    LET kept == {i \in 1..Len(s) : i \notin gone}
    IN  [k \in 1..Cardinality(kept) |->
            s[CHOOSE i \in kept : Cardinality({j \in kept : j <= i}) = k]]

\* sel is the set of occurrences of p taken from the left without overlap:
\* an occurrence is left out exactly when an earlier taken one covers its start.
TakenFromLeft(s, p, sel) ==
    \A i \in Occurrences(s, p) :
        i \in sel <=> ~\E j \in sel : j < i /\ i < j + Len(p)

\* The lines of t have pairwise different trimmed content.
UniqueTrimmedLines(t) ==
    LET ls == split_nl(t)
    IN  \A i, j \in 1..Len(ls) : i # j => strip(ls[i]) # strip(ls[j])

-----------------------------------------------------------------------------
(* Properties *)

\* C1: a request whose prompt is empty or only whitespace is answered 400
\* with detail "Prompt cannot be empty." and the generator is not called.
C1_EmptyPromptRejected ==
    (Answered /\ \A i \in 1..Len(body["prompt"]) : body["prompt"][i] \in Whitespace)
        => /\ response.status = 400
           /\ response.body = [detail |-> "Prompt cannot be empty."]
           /\ calls = <<>>

C1_Witness ==
    /\ Answered
    /\ body["prompt"] # <<>>
    /\ \A i \in 1..Len(body["prompt"]) : body["prompt"][i] \in Whitespace
    /\ response.status = 400

\* C2: a request with a non-empty trimmed prompt whose generator call
\* returned is answered 200 with a body whose only key, generated_text,
\* holds a string, possibly the empty one.
C2_GeneratedTextPresent ==
    (Answered /\ Prompt # <<>> /\ outputs # <<>>)
        => /\ response.status = 200
           /\ DOMAIN response.body = {"generated_text"}
           /\ response.body.generated_text \in Seq(Alphabet)

C2_Witness ==
    /\ Answered200
    /\ generated_text # <<>>
    /\ response.body.generated_text = <<>>

\* C3: the clamp keeps the first 200 words, joined by single spaces, of a
\* text of more than 200 words and leaves a text of at most 200 words as
\* it is; the returned text has at most 200 words.
C3_WordClamp ==
    Answered200 =>
        LET words == split_ws(stripped_text)
        IN  /\ WordCount(stripped_text) = Len(words)
            /\ Len(words) > 200 =>
                   /\ WordCount(final_text) = 200
                   /\ split_ws(final_text) = SubSeq(words, 1, 200)
                   /\ SingleSpaced(final_text)
            /\ Len(words) <= 200 => final_text = stripped_text
            /\ WordCount(response.body.generated_text) <= 200

C3_Witness ==
    /\ Answered200
    /\ WordCount(stripped_text) > 200
    /\ \E i \in 1..Len(stripped_text) : stripped_text[i] = "\n"
    /\ WordCount(final_text) = 200

\* C4: the line dedup applied to its own output gives that output again.
C4_DedupIdempotent ==
    Answered200 => join_lines(dedup_lines(joined_text)) = joined_text

C4_Witness ==
    /\ Answered200
    /\ joined_text # generated_text
    /\ Len(unique_lines) >= 2

C6_FirstOccurrenceKept ==
    /\ Answered200 =>
          LET lines == split_nl(generated_text)
              first == {i \in 1..Len(lines) :
                          \A j \in 1..(i - 1) : strip(lines[j]) # strip(lines[i])}
          IN  /\ Len(unique_lines) = Cardinality(first)
              /\ \A i \in first :
                    unique_lines[Cardinality({j \in first : j <= i})] = lines[i]
              /\ \A i, j \in 1..Len(unique_lines) :
                    i # j => strip(unique_lines[i]) # strip(unique_lines[j])
    /\ LET raw == <<"A", "\n", "B", "\n", "A", "\n", "C">>
       IN  clamp(strip_prompt(join_lines(dedup_lines(raw)), <<"X">>))
             = <<"A", "\n", "B", "\n", "C">>

C6_Witness ==
    /\ Answered200
    /\ LET lines == split_nl(generated_text)
       IN  \E i, j \in 1..Len(lines) :
              /\ i < j
              /\ lines[i] # lines[j]
              /\ strip(lines[i]) = strip(lines[j])
              /\ Len(unique_lines) = 2

\* C7: a request with a non-empty trimmed prompt calls the generator once,
\* also when the call raises, with the trimmed prompt, do_sample=True and the
\* request's five parameters (200, 0.7, 0.9, 1.2, 2 where the body has no
\* such key); the response is computed from the first candidate.
C7_OneCallVerbatim ==
    (Answered /\ Prompt # <<>>) =>
        LET given(k, default) == IF k \in DOMAIN body THEN body[k] ELSE default
        IN  /\ calls = << [final_prompt         |-> Prompt,
                           do_sample            |-> TRUE,
                           max_new_tokens       |-> given("max_new_tokens", 200),
                           temperature          |-> given("temperature", 7),
                           top_p                |-> given("top_p", 9),
                           repetition_penalty   |-> given("repetition_penalty", 12),
                           no_repeat_ngram_size |-> given("no_repeat_ngram_size", 2)] >>
            /\ response.status \in {200, 500}
            /\ response.status = 200 =>
                  /\ generated_text = outputs[1].generated_text
                  /\ response.body.generated_text =
                       clamp(strip_prompt(join_lines(dedup_lines(outputs[1].generated_text)),
                                          Prompt))

C7_Witness ==
    /\ Answered200
    /\ Len(outputs) >= 2
    /\ outputs[1] # outputs[2]
    /\ "temperature" \in DOMAIN body
    /\ "top_p" \notin DOMAIN body
    /\ body["prompt"] # Prompt

\* C8: a response is served only by a process whose model is loaded, and a
\* process whose load failed has terminated and never takes a step.
C8_NoServingWithoutModel ==
    /\ [](pc = "responded" => (process = "serving" /\ generator = "pipeline"))
    /\ [](process = "terminated" => (generator = "unset" /\ pc = "idle" /\ response = NoResponse))
    /\ [][process = "terminated" => UNCHANGED vars]_vars

C8_Witness == process = "terminated" /\ generator = "unset"

\* C9 as stated: the returned text never contains the trimmed prompt.
C9_Original ==
    Answered200 => ~contains(final_text, Prompt)

\* C9 amended: the returned text never contains a trimmed prompt of one
\* character.
C9_SingleCharPromptAbsent ==
    (Answered200 /\ Len(Prompt) = 1) => ~contains(response.body.generated_text, Prompt)

C9_Witness ==
    /\ Answered200
    /\ Len(Prompt) = 1
    /\ Cardinality(Occurrences(joined_text, Prompt)) >= 2
    /\ final_text # <<>>

\* C10 as stated: no two lines of the returned text have the same trimmed
\* content.
C10_Original ==
    Answered200 => UniqueTrimmedLines(final_text)

\* C10 amended: when the trimmed prompt does not occur in the deduplicated
\* text, no two lines of the returned text have the same trimmed content.
C10_UniqueLinesWithoutEcho ==
    (Answered200 /\ ~contains(joined_text, Prompt))
        => UniqueTrimmedLines(response.body.generated_text)

C10_Witness ==
    /\ Answered200
    /\ ~contains(joined_text, Prompt)
    /\ Len(split_nl(generated_text)) > Len(unique_lines)
    /\ Len(split_nl(final_text)) >= 2

====
